---- MODULE Spec2Model ----
(***************************************************************************)
(* Model of src/data/datacenter-geo/to_geojson.py: the TXT -> GeoJSON      *)
(* feature recovery pipeline (parse_txt_to_geojson and its helpers).       *)
(*                                                                         *)
(* Numbers are fixed-point: an integer n stands for n/100 degrees, so      *)
(* -33.45 is -3345 and the latitude limit 90 is 9000.  Strings are         *)
(* sequences of one-character strings.                                     *)
(***************************************************************************)
EXTENDS Integers, Sequences, FiniteSets, TLC

VARIABLES
    content,        \* lines of the input file
    pc,             \* position in parse_txt_to_geojson / extract_features_from_content
    li,             \* index of the next line of strategy B's scan
    current_feature,\* strategy B's buffer (the accumulated non-blank lines)
    brace_count,    \* strategy B's running count of '{' minus '}'
    features,       \* candidates extracted so far / returned by the extractor
    engaged,        \* strategies run so far, in order (history)
    last,           \* what the last line-scan step did (history)
    fi,             \* index of the next candidate of the validation loop
    out_features,   \* geojson_data["features"]
    written         \* the output file has been written

vars == <<content, pc, li, current_feature, brace_count, features, engaged,
          last, fi, out_features, written>>

(***************************************************************************)
(* JSON values                                                             *)
(***************************************************************************)
Num(n) == [t |-> "num", n |-> n, s |-> <<>>]
Str(s) == [t |-> "str", n |-> 0, s |-> s]
Null == [t |-> "null", n |-> 0, s |-> <<>>]
\* a JSON array or object used as a scalar's stand-in (neither string nor number)
Lst == [t |-> "lst", n |-> 0, s |-> <<>>]
\* marks a key that is not in a mapping (never a value of one)
Absent == [t |-> "absent", n |-> 0, s |-> <<>>]

\* a mapping: the keys a function is defined on are the keys present
Restrict(f) == [k \in {x \in DOMAIN f : f[x] # Absent} |-> f[k]]
EmptyMap == [k \in {} |-> Absent]
HasKey(m, k) == k \in DOMAIN m

(***************************************************************************)
(* Python's float(), str() and str.strip()                                 *)
(***************************************************************************)
IsSpace(c) == c \in {" ", "\t"}
Digits == {"0", "1", "2", "3", "4", "5", "6", "7", "8", "9"}

DigitVal(c) ==
    CASE c = "0" -> 0 [] c = "1" -> 1 [] c = "2" -> 2 [] c = "3" -> 3
      [] c = "4" -> 4 [] c = "5" -> 5 [] c = "6" -> 6 [] c = "7" -> 7
      [] c = "8" -> 8 [] c = "9" -> 9

DigitChar(d) == <<"0", "1", "2", "3", "4", "5", "6", "7", "8", "9">>[d + 1]

RECURSIVE LStrip(_)
LStrip(s) == IF s # <<>> /\ IsSpace(Head(s)) THEN LStrip(Tail(s)) ELSE s

RECURSIVE RStrip(_)
RStrip(s) ==
    IF s # <<>> /\ IsSpace(s[Len(s)]) THEN RStrip(SubSeq(s, 1, Len(s) - 1)) ELSE s

\* str.strip()
Strip(s) == RStrip(LStrip(s))

RECURSIVE DigitsVal(_)
DigitsVal(s) ==
    IF s = <<>> THEN 0
    ELSE 10 * DigitsVal(SubSeq(s, 1, Len(s) - 1)) + DigitVal(s[Len(s)])

AllDigits(s) == \A i \in 1..Len(s) : s[i] \in Digits

\* position of the first "." (0 if none)
DotAt(s) == IF \E i \in 1..Len(s) : s[i] = "."
            THEN CHOOSE i \in 1..Len(s) : s[i] = "." /\ \A j \in 1..(i - 1) : s[j] # "."
            ELSE 0

ParseError == [ok |-> FALSE, n |-> 0]

\* integer part ip and decimals fp (at most two), in hundredths
DecimalVal(ip, fp) ==
    IF AllDigits(ip) /\ AllDigits(fp) /\ Len(ip) + Len(fp) > 0 /\ Len(fp) <= 2
    THEN [ok |-> TRUE,
          n |-> 100 * DigitsVal(ip)
                + (IF Len(fp) = 1 THEN 10 ELSE 1) * DigitsVal(fp)]
    ELSE ParseError

SplitAt(s, d) ==
    IF d = 0 THEN DecimalVal(s, <<>>)
    ELSE DecimalVal(SubSeq(s, 1, d - 1), SubSeq(s, d + 1, Len(s)))

\* an unsigned decimal numeral
UnsignedVal(s) == SplitAt(s, DotAt(s))

Negate(r) == [ok |-> r.ok, n |-> 0 - r.n]

SignedVal(b) ==
    IF b # <<>> /\ Head(b) = "-" THEN Negate(UnsignedVal(Tail(b)))
    ELSE IF b # <<>> /\ Head(b) = "+" THEN UnsignedVal(Tail(b))
    ELSE UnsignedVal(b)

\* float(s) of a string: surrounding whitespace, a sign, a decimal numeral;
\* ok = FALSE stands for ValueError
ParseFloat(s) == SignedVal(Strip(s))

RECURSIVE NatStr(_)
NatStr(n) == IF n < 10 THEN <<DigitChar(n)>>
             ELSE NatStr(n \div 10) \o <<DigitChar(n % 10)>>

FracStr(frac) ==
    IF frac = 0 THEN <<>>
    ELSE IF frac % 10 = 0 THEN <<".", DigitChar(frac \div 10)>>
    ELSE <<".", DigitChar(frac \div 10), DigitChar(frac % 10)>>

AbsStr(a) == NatStr(a \div 100) \o FracStr(a % 100)

\* str(x) of a number: sign, integer part, and the decimals it has
NumStr(n) == IF n < 0 THEN <<"-">> \o AbsStr(0 - n) ELSE AbsStr(n)

\* str(v)
StrOf(v) ==
    CASE v.t = "num" -> NumStr(v.n)
      [] v.t = "str" -> v.s
      [] v.t = "null" -> <<"N", "o", "n", "e">>
      [] OTHER -> <<"[", "]">>

\* float(v): ok = FALSE stands for ValueError or TypeError
ToFloat(v) ==
    CASE v.t = "num" -> [ok |-> TRUE, n |-> v.n]
      [] v.t = "str" -> ParseFloat(v.s)
      [] OTHER -> [ok |-> FALSE, n |-> 0]

(***************************************************************************)
(* Coordinate validation and resolution                                    *)
(***************************************************************************)
Deg(d) == d * 100
LatMin == -90
LatMax == 90
LonMin == -180
LonMax == 180
ChileLatMin == -56
ChileLatMax == -17
ChileLonMin == -109
ChileLonMax == -66

\* fault variant: the two ranges exchanged between latitude and longitude
IsValidCoordinateExchanged(lat, lon) ==
    /\ Deg(LonMin) <= lat /\ lat <= Deg(LonMax)
    /\ Deg(LatMin) <= lon /\ lon <= Deg(LatMax)

\* is_valid_coordinate(lat, lon)
IsValidCoordinate(lat, lon) ==
    /\ Deg(LatMin) <= lat /\ lat <= Deg(LatMax)
    /\ Deg(LonMin) <= lon /\ lon <= Deg(LonMax)

\* is_chile_coordinate(lat, lon)
IsChileCoordinate(lat, lon) ==
    LET lat_valid == Deg(ChileLatMin) <= lat /\ lat <= Deg(ChileLatMax)
        lon_valid == Deg(ChileLonMin) <= lon /\ lon <= Deg(ChileLonMax)
    IN IF lat_valid /\ lon_valid THEN TRUE ELSE IsValidCoordinate(lat, lon)

\* geometry and properties as found in a candidate
Geom(t, c, items) == [t |-> t, c |-> c, items |-> items]
PointGeom(a, b) == Geom("dict", "list", <<a, b>>)
Props(t, m) == [t |-> t, m |-> m]
DictProps(m) == Props("dict", m)

\* key in properties, for a mapping or a list (a list holds no such string)
In(properties, key) == properties.t = "dict" /\ HasKey(properties.m, key)

\* "x in properties" raises TypeError when properties is None or a number
InRaises(properties) == properties.t \in {"null", "num"}

NoCoordinates == [r |-> "none", lon |-> Null, lat |-> Null]
Coordinates(lon, lat) == [r |-> "ok", lon |-> lon, lat |-> lat]

\* "if is_valid_coordinate(lat, lon): return (lon, lat)" on the parsed floats
AcceptLatLon(lat, lon) ==
    IF lat.ok /\ lon.ok /\ IsValidCoordinate(lat.n, lon.n)
    THEN Coordinates(Num(lon.n), Num(lat.n))
    ELSE NoCoordinates

\* Prioridad 1: explicit latitude/longitude in properties
FromProperties(properties) ==
    IF In(properties, "latitude") /\ In(properties, "longitude")
    THEN AcceptLatLon(ParseFloat(StrOf(properties.m["latitude"])),
                      ParseFloat(StrOf(properties.m["longitude"])))
    ELSE NoCoordinates

\* fault variant: the [lat, lon] reading is tried before the [lon, lat] one
OrientLatFirst(coord1_original, coord2_original, coord1, coord2) ==
    IF ~(coord1.ok /\ coord2.ok) THEN NoCoordinates
    ELSE IF IsValidCoordinate(coord1.n, coord2.n)
         THEN Coordinates(coord2_original, coord1_original)
    ELSE IF IsValidCoordinate(coord2.n, coord1.n)
         THEN Coordinates(coord1_original, coord2_original)
    ELSE NoCoordinates

\* the orientation test on the two elements and their float() values
Orient(coord1_original, coord2_original, coord1, coord2) ==
    IF ~(coord1.ok /\ coord2.ok) THEN NoCoordinates
    ELSE IF IsValidCoordinate(coord2.n, coord1.n)
         THEN Coordinates(coord1_original, coord2_original)
    ELSE IF IsValidCoordinate(coord1.n, coord2.n)
         THEN Coordinates(coord2_original, coord1_original)
    ELSE NoCoordinates

\* Prioridad 2: geometry.coordinates, in either orientation
FromGeometry(geometry) ==
    IF geometry.t = "dict" /\ geometry.c = "list" /\ Len(geometry.items) = 2
    THEN Orient(geometry.items[1], geometry.items[2],
                ToFloat(geometry.items[1]), ToFloat(geometry.items[2]))
    ELSE NoCoordinates

lat_fields == <<"lat", "latitude", "y", "LAT", "LATITUDE">>
lon_fields == <<"lon", "lng", "longitude", "x", "LON", "LONGITUDE", "LNG">>

AsNum(f) == [ok |-> f.ok, v |-> Num(f.n)]

\* a field's value as the loops of Prioridad 3 take it: a number as it is,
\* anything else through float(); ok = FALSE when the field is skipped
FieldValue(properties, field) ==
    IF ~In(properties, field) THEN [ok |-> FALSE, v |-> Absent]
    ELSE IF properties.m[field].t = "num" THEN [ok |-> TRUE, v |-> properties.m[field]]
    ELSE AsNum(ToFloat(properties.m[field]))

\* fault variant: "break" in place of "continue", the search ends at the first
\* field that is present whether or not it converts
RECURSIVE FirstPresentField(_, _)
FirstPresentField(fields, properties) ==
    IF fields = <<>> THEN Absent
    ELSE IF In(properties, Head(fields))
         THEN IF FieldValue(properties, Head(fields)).ok
              THEN FieldValue(properties, Head(fields)).v
              ELSE Absent
    ELSE FirstPresentField(Tail(fields), properties)

\* the first field of the list that is present and converts; Absent if none
RECURSIVE FirstField(_, _)
FirstField(fields, properties) ==
    IF fields = <<>> THEN Absent
    ELSE IF FieldValue(properties, Head(fields)).ok
         THEN FieldValue(properties, Head(fields)).v
    ELSE FirstField(Tail(fields), properties)

AcceptAlt(lat_val, lon_val) ==
    IF lat_val # Absent /\ lon_val # Absent /\ IsValidCoordinate(lat_val.n, lon_val.n)
    THEN Coordinates(lon_val, lat_val)
    ELSE NoCoordinates

\* Prioridad 3: alternate field names
FromAltFields(properties) ==
    AcceptAlt(FirstField(lat_fields, properties), FirstField(lon_fields, properties))

\* fault variant: Prioridad 2 tried before Prioridad 1
GeometryFirst(a, b, c) == IF b.r = "ok" THEN b ELSE IF a.r = "ok" THEN a ELSE c

FirstSuccess(a, b, c) == IF a.r = "ok" THEN a ELSE IF b.r = "ok" THEN b ELSE c

\* extract_coordinates(geometry, properties); r = "raise" is the TypeError of
\* "'latitude' in properties" on a properties that is no container
ExtractCoordinates(geometry, properties) ==
    IF InRaises(properties) THEN [r |-> "raise", lon |-> Null, lat |-> Null]
    ELSE FirstSuccess(FromProperties(properties), FromGeometry(geometry),
                      FromAltFields(properties))

(***************************************************************************)
(* validate_and_fix_feature                                                *)
(***************************************************************************)
\* a candidate: t = "dict" for a mapping; type = "" when it has no "type"
\* "items" are the elements of a list or of a "features" member, "size" is len()
Cand(t, type, g, p, items, size) ==
    [t |-> t, type |-> type, g |-> g, p |-> p, items |-> items, size |-> size]
AbsentGeom == Geom("absent", "absent", <<>>)
AbsentProps == Props("absent", EmptyMap)
FeatureCand(g, p) == Cand("dict", "Feature", g, p, <<>>, 3)

\* feature.get("geometry", {}) and feature.get("properties", {})
GetGeometry(feature) == IF feature.g.t = "absent" THEN Geom("dict", "absent", <<>>) ELSE feature.g
GetProperties(feature) == IF feature.p.t = "absent" THEN DictProps(EmptyMap) ELSE feature.p

\* the test of the cleaning loop on one key
KeepProperty(key, value) ==
    /\ ~(value.t = "str" /\ value.s = <<>>)
    /\ value.t # "null"
    /\ key \notin {"latitude", "longitude"}
    /\ (value.t = "str" => Strip(value.s) # <<>>)

\* fault variant: the value is kept without value.strip()
CleanValueUntrimmed(value) == value

CleanValue(value) == IF value.t = "str" THEN Str(Strip(value.s)) ELSE value

CleanMap(m) == [k \in {x \in DOMAIN m : KeepProperty(x, m[x])} |-> CleanValue(m[k])]

\* "if not isinstance(properties, dict): properties = {}" and the
\* cleaned_properties loop
CleanProperties(properties) ==
    IF properties.t = "dict" THEN CleanMap(properties.m) ELSE EmptyMap

Rejected == [r |-> "none", coords |-> <<>>, props |-> EmptyMap]
Raised == [r |-> "raise", coords |-> <<>>, props |-> EmptyMap]
Feature(lon, lat, props) == [r |-> "ok", coords |-> <<lon, lat>>, props |-> props]

\* the part of validate_and_fix_feature after extract_coordinates
Normalize(coordinates, properties) ==
    IF coordinates.r = "raise" THEN Raised
    ELSE IF coordinates.r = "none" THEN Rejected
    ELSE Feature(coordinates.lon, coordinates.lat, CleanProperties(properties))

\* validate_and_fix_feature(feature)
ValidateAndFixFeature(feature) ==
    IF feature.t # "dict" \/ feature.type # "Feature" THEN Rejected
    ELSE Normalize(ExtractCoordinates(GetGeometry(feature), GetProperties(feature)),
                   GetProperties(feature))

(***************************************************************************)
(* parse_txt_to_geojson: the validation loop and the write                 *)
(***************************************************************************)
\* one iteration of "for i, feature in enumerate(features)"; an exception of
\* validate_and_fix_feature reaches "except Exception" and ends the run
AfterValidate(validated_feature) ==
    IF validated_feature.r = "raise"
    THEN /\ pc' = "aborted"
         /\ UNCHANGED <<fi, out_features>>
    ELSE /\ fi' = fi + 1
         /\ pc' = pc
         /\ out_features' = IF validated_feature.r = "ok"
                            THEN Append(out_features, validated_feature)
                            ELSE out_features

ValidateStep ==
    /\ pc = "validate"
    /\ fi <= Len(features)
    /\ AfterValidate(ValidateAndFixFeature(features[fi]))
    /\ UNCHANGED <<content, li, current_feature, brace_count, features, engaged,
                   last, written>>

\* json.dump(geojson_data, file) after the loop
WriteOutput ==
    /\ pc = "validate"
    /\ fi > Len(features)
    /\ written' = TRUE
    /\ pc' = "done"
    /\ UNCHANGED <<content, li, current_feature, brace_count, features, engaged,
                   last, fi, out_features>>

(***************************************************************************)
(* Inputs of the resolver and validator                                    *)
(***************************************************************************)
sLat == Str(<<" ", "-", "3", "3", ".", "4", "5", " ">>)
sLon == Str(<<"-", "7", "0", ".", "6", "7">>)
sJunk == Str(<<"x">>)
sName == Str(<<" ", "D", "C", "1", " ">>)
sEmpty == Str(<<>>)
sBlank == Str(<<" ", " ">>)

\* elements of geometry.coordinates
CoordValues ==
    {Num(-18001), Num(-18000), Num(-9001), Num(-9000), Num(-7067), Num(-3345),
     Num(9000), Num(18000), sLon, sJunk}

Geometries ==
    {PointGeom(a, b) : a \in CoordValues, b \in CoordValues}
    \cup {Geom("null", "absent", <<>>), Geom("num", "absent", <<>>),
          Geom("absent", "absent", <<>>), Geom("dict", "absent", <<>>),
          Geom("dict", "other", <<>>), Geom("dict", "list", <<Num(-7067)>>),
          Geom("dict", "list", <<Num(-7067), Num(-3345), Num(0)>>)}

\* properties that bear on coordinates: each key absent or one of a few values
CoordProperties ==
    {DictProps(Restrict(
        [latitude |-> la, longitude |-> lo, lat |-> l2, y |-> y2, lon |-> o2, x |-> x2])) :
        la \in {Absent, Num(-3345), Num(12000), sLat, sJunk},
        lo \in {Absent, Num(-7067), sJunk},
        l2 \in {Absent, Num(-3345), sJunk},
        y2 \in {Absent, Num(-5000)},
        o2 \in {Absent, Num(-7067), sJunk},
        x2 \in {Absent, Num(-10945)}}

\* descriptive properties
DescProperties ==
    {DictProps(Restrict(
        [name |-> n, note |-> o, extra |-> e, coordinates |-> c,
         latitude |-> la, longitude |-> lo])) :
        n \in {Absent, sName, Str(<<"D">>)},
        o \in {Absent, sEmpty, sBlank, Null},
        e \in {Absent, Num(5), Lst},
        c \in {Absent, Lst},
        la \in {Absent, Num(-3345)},
        lo \in {Absent, Num(-7067), sEmpty}}

OtherProperties ==
    {Props("null", EmptyMap), Props("num", EmptyMap), Props("list", EmptyMap),
     Props("absent", EmptyMap)}

FewGeometries ==
    {PointGeom(Num(-7067), Num(-3345)), PointGeom(Num(-3345), Num(-7067)),
     PointGeom(Num(-3345), Num(-10945)), Geom("null", "absent", <<>>)}

NonFeatures ==
    {Cand(t, ty, g, DictProps(EmptyMap), <<>>, 3) :
        t \in {"dict", "list", "num"}, ty \in {"", "Other"}, g \in FewGeometries}

(***************************************************************************)
(* The input text: a sequence of lines, each one of a few shapes           *)
(*   blank          (empty line)                                           *)
(*   lbrace         {                                                      *)
(*   rbrace         }                                                      *)
(*   empty_list     []                                                     *)
(*   coll_open      {"type": "FeatureCollection", "features": [            *)
(*   coll_close     ]}                                                     *)
(*   feature        a JSON object {"type": .., "geometry": .., "properties": ..} *)
(*   feature_comma  the same followed by a comma                           *)
(*   fields         "name": "DC1", "coordinates": [-33.45, -70.67]         *)
(*   unquoted       name: Santiago DC1,                                    *)
(*   member         "name": "Santiago DC1"   (only what repair makes of    *)
(*                  an unquoted line; never a line of the input)           *)
(*   corrupt        a feature line broken by repair (never in the input)   *)
(***************************************************************************)
NoCand == Cand("none", "", AbsentGeom, AbsentProps, <<>>, 0)
Line(k) == [k |-> k, c |-> NoCand]
FeatureLine(c) == [k |-> "feature", c |-> c]
FeatureCommaLine(c) == [k |-> "feature_comma", c |-> c]
IsBlank(line) == line.k = "blank"

\* line.count('{') and line.count('}')
ObjectBraces(c) ==
    1 + (IF c.g.t = "dict" THEN 1 ELSE 0) + (IF c.p.t = "dict" THEN 1 ELSE 0)
Opens(line) ==
    CASE line.k \in {"lbrace", "coll_open"} -> 1
      [] line.k \in {"feature", "feature_comma"} -> ObjectBraces(line.c)
      [] OTHER -> 0
Closes(line) ==
    CASE line.k \in {"rbrace", "coll_close"} -> 1
      [] line.k \in {"feature", "feature_comma"} -> ObjectBraces(line.c)
      [] OTHER -> 0

NonBlank(lines) == SelectSeq(lines, LAMBDA l : ~IsBlank(l))

\* content.strip().startswith('{') or content.strip().startswith('[')
StartsLikeJson(lines) ==
    /\ NonBlank(lines) # <<>>
    /\ Head(NonBlank(lines)).k \in
          {"lbrace", "coll_open", "feature", "feature_comma", "empty_list"}

(***************************************************************************)
(* json.loads on a sequence of lines                                       *)
(***************************************************************************)
ListValue(items) == Cand("list", "", AbsentGeom, AbsentProps, items, Len(items))
ObjectValue(size) == Cand("dict", "", AbsentGeom, AbsentProps, <<>>, size)
CollectionValue(items) ==
    Cand("dict", "FeatureCollection", AbsentGeom, AbsentProps, items, 2)
HasFeaturesKey(v) == v.t = "dict" /\ v.type = "FeatureCollection"
ParseFail == [ok |-> FALSE, v |-> NoCand, next |-> 0]
Parsed(v, next) == [ok |-> TRUE, v |-> v, next |-> next]

KindAt(s, i) == IF i <= Len(s) THEN s[i].k ELSE "eof"

\* the features with a trailing comma from position i on
RECURSIVE CommaRun(_, _)
CommaRun(s, i) ==
    IF KindAt(s, i) = "feature_comma" THEN <<s[i].c>> \o CommaRun(s, i + 1) ELSE <<>>

\* one JSON value starting at line i
RECURSIVE ParseValue(_, _)
ParseValue(s, i) ==
    CASE KindAt(s, i) = "feature" -> Parsed(s[i].c, i + 1)
      [] KindAt(s, i) = "empty_list" -> Parsed(ListValue(<<>>), i + 1)
      [] KindAt(s, i) = "lbrace" ->
           IF KindAt(s, i + 1) = "rbrace" THEN Parsed(ObjectValue(0), i + 2)
           ELSE IF KindAt(s, i + 1) = "fields" /\ KindAt(s, i + 2) = "rbrace"
                THEN Parsed(ObjectValue(2), i + 3)
           ELSE IF KindAt(s, i + 1) = "member" /\ KindAt(s, i + 2) = "rbrace"
                THEN Parsed(ObjectValue(1), i + 3)
           ELSE ParseFail
      [] KindAt(s, i) = "coll_open" ->
           LET run == CommaRun(s, i + 1)
               j == i + 1 + Len(run)
           IN IF KindAt(s, j) = "coll_close"
              THEN IF run = <<>> THEN Parsed(CollectionValue(<<>>), j + 1)
                   ELSE ParseFail
              ELSE LET lastv == ParseValue(s, j)
                   IN IF lastv.ok /\ KindAt(s, lastv.next) = "coll_close"
                      THEN Parsed(CollectionValue(Append(run, lastv.v)), lastv.next + 1)
                      ELSE ParseFail
      [] OTHER -> ParseFail

\* json.loads(text): exactly one value; ok = FALSE is JSONDecodeError
JsonLoads(lines) ==
    LET s == NonBlank(lines)
        r == ParseValue(s, 1)
    IN IF r.ok /\ r.next = Len(s) + 1 THEN r ELSE ParseFail

(***************************************************************************)
(* repair_json_string                                                      *)
(***************************************************************************)
\* the second substitution quotes an unquoted value of two or more characters
\* and swallows the "," or "}" after it
Unquoted2(v) == v.t = "null" \/ (v.t = "num" /\ Len(NumStr(v.n)) >= 2)

RepairStable(c) ==
    /\ c.g.t # "null"
    /\ c.p.t # "null"
    /\ c.p.t = "dict" => \A k \in DOMAIN c.p.m : ~Unquoted2(c.p.m[k])

\* what the three substitutions make of one line
RepairLine(line) ==
    CASE line.k = "unquoted" -> Line("member")
      [] line.k \in {"feature", "feature_comma"} /\ ~RepairStable(line.c) ->
           [k |-> "corrupt", c |-> line.c]
      [] OTHER -> line

\* repair_json_string(json_str): ok = FALSE is the None it returns
RepairJsonString(lines) ==
    JsonLoads([i \in 1..Len(lines) |-> RepairLine(lines[i])])

\* "if repaired:"
Truthy(r) == r.ok /\ r.v.size > 0

(***************************************************************************)
(* create_feature_from_data and extract_with_regex                         *)
(***************************************************************************)
\* extracted data: m holds the scalar fields, c/items the "coordinates" field
Data(m, c, items) == [m |-> m, c |-> c, items |-> items]

CreateFeatureFromData(data) ==
    LET fromLatLon ==
            IF HasKey(data.m, "latitude") /\ HasKey(data.m, "longitude")
            THEN LET lat_original == data.m["latitude"]
                     lon_original == data.m["longitude"]
                     lat == ToFloat(lat_original)
                     lon == ToFloat(lon_original)
                 IN IF lat.ok /\ lon.ok /\ IsValidCoordinate(lat.n, lon.n)
                    THEN Coordinates(lon_original, lat_original)
                    ELSE NoCoordinates
            ELSE NoCoordinates
        fromArray ==
            IF data.c = "list" /\ Len(data.items) = 2
            THEN LET coord1_original == data.items[1]
                     coord2_original == data.items[2]
                     coord1 == ToFloat(coord1_original)
                     coord2 == ToFloat(coord2_original)
                 IN IF ~(coord1.ok /\ coord2.ok) THEN NoCoordinates
                    ELSE IF IsChileCoordinate(coord2.n, coord1.n)
                         THEN Coordinates(coord1_original, coord2_original)
                    ELSE IF IsChileCoordinate(coord1.n, coord2.n)
                         THEN Coordinates(coord2_original, coord1_original)
                    ELSE NoCoordinates
            ELSE NoCoordinates
        coordinates == IF fromLatLon.r = "ok" THEN fromLatLon ELSE fromArray
        properties == [k \in DOMAIN data.m \ {"coordinates", "latitude", "longitude"}
                          |-> data.m[k]]
    IN IF coordinates.r # "ok" THEN [ok |-> FALSE, v |-> NoCand]
       ELSE [ok |-> TRUE,
             v |-> FeatureCand(PointGeom(coordinates.lon, coordinates.lat),
                               DictProps(properties))]

NameDC1 == Str(<<"D", "C", "1">>)

\* the first match of the "name" pattern in a line (Absent if none)
NameMatch(line) ==
    CASE line.k = "fields" -> NameDC1
      [] line.k \in {"feature", "feature_comma"}
           /\ In(line.c.p, "name") /\ line.c.p.m["name"].t = "str" -> line.c.p.m["name"]
      [] OTHER -> Absent

\* the first match of the "latitude" / "longitude" pattern: an unquoted number
NumberMatch(line, key) ==
    IF line.k \in {"feature", "feature_comma"}
       /\ In(line.c.p, key) /\ line.c.p.m[key].t = "num"
    THEN line.c.p.m[key] ELSE Absent

\* the first match of the "coordinates" pattern: "none", or the bracketed
\* text, which gives a list of floats ("list") or raises ValueError ("bad")
CoordinatesMatch(line) ==
    CASE line.k = "fields" ->
           [c |-> "list", items |-> <<Num(-3345), Num(-7067)>>]
      [] line.k \in {"feature", "feature_comma"}
           /\ line.c.g.t = "dict" /\ line.c.g.c = "list" /\ line.c.g.items # <<>> ->
           IF \A i \in 1..Len(line.c.g.items) : line.c.g.items[i].t = "num"
           THEN [c |-> "list", items |-> line.c.g.items]
           ELSE [c |-> "bad", items |-> <<>>]
      [] OTHER -> [c |-> "none", items |-> <<>>]

\* 'name' in section or 'coordinates' in section
Mentions(line) ==
    \/ line.k \in {"fields", "unquoted"}
    \/ /\ line.k \in {"feature", "feature_comma"}
       /\ \/ In(line.c.p, "name") \/ In(line.c.p, "coordinates")
          \/ (line.c.g.t = "dict" /\ line.c.g.c # "absent")

\* re.search: the first line of the section in which the pattern matches
FirstWhere(section, P(_)) ==
    IF \E i \in 1..Len(section) : P(section[i])
    THEN CHOOSE i \in 1..Len(section) :
            P(section[i]) /\ \A j \in 1..(i - 1) : ~P(section[j])
    ELSE 0

\* the body of "for section in sections", for one section
SectionFeature(section) ==
    IF ~\E i \in 1..Len(section) : Mentions(section[i])
    THEN [ok |-> FALSE, v |-> NoCand]
    ELSE LET ni == FirstWhere(section, LAMBDA l : NameMatch(l) # Absent)
             ai == FirstWhere(section, LAMBDA l : NumberMatch(l, "latitude") # Absent)
             oi == FirstWhere(section, LAMBDA l : NumberMatch(l, "longitude") # Absent)
             ci == FirstWhere(section, LAMBDA l : CoordinatesMatch(l).c # "none")
             cm == IF ci = 0 THEN [c |-> "none", items |-> <<>>]
                   ELSE CoordinatesMatch(section[ci])
             hasCoords == cm.c = "list" /\ Len(cm.items) = 2
             m == Restrict(
                    [name |-> IF ni = 0 THEN Absent ELSE NameMatch(section[ni]),
                     latitude |-> IF ai = 0 THEN Absent
                                  ELSE NumberMatch(section[ai], "latitude"),
                     longitude |-> IF oi = 0 THEN Absent
                                   ELSE NumberMatch(section[oi], "longitude")])
         IN IF ni = 0 THEN [ok |-> FALSE, v |-> NoCand]
            ELSE CreateFeatureFromData(
                   Data(m, IF hasCoords THEN "list" ELSE "absent",
                        IF hasCoords THEN cm.items ELSE <<>>))

\* re.split(r'\n\s*\n', content): the runs of lines between blank lines
RECURSIVE Sections(_)
Sections(lines) ==
    IF lines = <<>> THEN <<>>
    ELSE IF IsBlank(Head(lines)) THEN Sections(Tail(lines))
    ELSE LET n == IF \E i \in 1..Len(lines) : IsBlank(lines[i])
                  THEN (CHOOSE i \in 1..Len(lines) :
                          IsBlank(lines[i]) /\ \A j \in 1..(i - 1) : ~IsBlank(lines[j])) - 1
                  ELSE Len(lines)
         IN <<SubSeq(lines, 1, n)>> \o Sections(SubSeq(lines, n + 1, Len(lines)))

RECURSIVE SectionFeatures(_)
SectionFeatures(sections) ==
    IF sections = <<>> THEN <<>>
    ELSE LET f == SectionFeature(Head(sections))
         IN (IF f.ok THEN <<f.v>> ELSE <<>>) \o SectionFeatures(Tail(sections))

\* extract_with_regex(content)
ExtractWithRegex(lines) == SectionFeatures(Sections(lines))

(***************************************************************************)
(* extract_features_from_content                                           *)
(***************************************************************************)
\* Estrategia 1: returned = TRUE when one of the three return statements runs
FullParse(lines) ==
    LET parsed_data == IF StartsLikeJson(lines) THEN JsonLoads(lines) ELSE ParseFail
    IN IF ~parsed_data.ok THEN [returned |-> FALSE, features |-> <<>>]
       ELSE IF HasFeaturesKey(parsed_data.v)
            THEN [returned |-> TRUE, features |-> parsed_data.v.items]
       ELSE IF parsed_data.v.t = "list"
            THEN [returned |-> TRUE, features |-> parsed_data.v.items]
       ELSE IF parsed_data.v.t = "dict" /\ parsed_data.v.type = "Feature"
            THEN [returned |-> TRUE, features |-> <<parsed_data.v>>]
       ELSE [returned |-> FALSE, features |-> <<>>]

\* Estrategia 2: the body of "for line in lines" on the scan's state
Scan(buf, bc, feats, what) ==
    [current_feature |-> buf, brace_count |-> bc, features |-> feats, last |-> what]

\* fault variant: the buffer is not reset when strict parse and repair both fail
ScanStepKeepOnFailure(st, line) ==
    IF IsBlank(line)
    THEN Scan(st.current_feature, st.brace_count, st.features, "skip")
    ELSE LET buf == Append(st.current_feature, line)
             bc == st.brace_count + Opens(line) - Closes(line)
         IN IF bc = 0 /\ buf # <<>>
            THEN LET feature_dict == JsonLoads(buf)
                     repaired == RepairJsonString(buf)
                 IN IF feature_dict.ok
                    THEN Scan(<<>>, bc, Append(st.features, feature_dict.v), "parsed")
                    ELSE IF Truthy(repaired)
                         THEN Scan(<<>>, bc, Append(st.features, repaired.v), "repaired")
                    ELSE Scan(buf, bc, st.features, "failed")
            ELSE Scan(buf, bc, st.features, "accumulate")

ScanStep(st, line) ==
    IF IsBlank(line)
    THEN Scan(st.current_feature, st.brace_count, st.features, "skip")
    ELSE LET buf == Append(st.current_feature, line)
             bc == st.brace_count + Opens(line) - Closes(line)
         IN IF bc = 0 /\ buf # <<>>
            THEN LET feature_dict == JsonLoads(buf)
                     repaired == RepairJsonString(buf)
                 IN IF feature_dict.ok
                    THEN Scan(<<>>, bc, Append(st.features, feature_dict.v), "parsed")
                    ELSE IF Truthy(repaired)
                         THEN Scan(<<>>, bc, Append(st.features, repaired.v), "repaired")
                    ELSE Scan(<<>>, bc, st.features, "failed")
            ELSE Scan(buf, bc, st.features, "accumulate")

ScanStart == Scan(<<>>, 0, <<>>, "none")

RECURSIVE ScanFrom(_, _, _)
ScanFrom(st, lines, i) ==
    IF i > Len(lines) THEN st ELSE ScanFrom(ScanStep(st, lines[i]), lines, i + 1)

\* what the whole line scan appends to features
BalancedAccumulation(lines) == ScanFrom(ScanStart, lines, 1).features

\* Estrategia 3: the matches of feature_pattern, each parsed
IsFeatureMatch(line) ==
    /\ line.k \in {"feature", "feature_comma"}
    /\ line.c.t = "dict" /\ line.c.type = "Feature"

RECURSIVE PatternScan(_)
PatternScan(lines) ==
    IF lines = <<>> THEN <<>>
    ELSE (IF IsFeatureMatch(Head(lines)) THEN <<Head(lines).c>> ELSE <<>>)
         \o PatternScan(Tail(lines))

\* extract_features_from_content(content), as one function
ExtractFeaturesFromContent(lines) ==
    LET a == FullParse(lines)
        b == BalancedAccumulation(lines)
        c == IF b = <<>> THEN PatternScan(lines) ELSE b
        d == IF c = <<>> THEN ExtractWithRegex(lines) ELSE c
    IN IF a.returned THEN a.features ELSE d

(***************************************************************************)
(* The steps of the extractor                                              *)
(***************************************************************************)
StrategyA ==
    /\ pc = "A"
    /\ engaged' = Append(engaged, "A")
    /\ LET a == FullParse(content)
       IN IF a.returned
          THEN /\ features' = a.features
               /\ pc' = "validate"
          ELSE /\ features' = <<>>
               /\ pc' = "B"
    /\ UNCHANGED <<content, li, current_feature, brace_count, last, fi,
                   out_features, written>>

ScanLine ==
    /\ pc = "B"
    /\ li <= Len(content)
    /\ LET st == ScanStep(Scan(current_feature, brace_count, features, last),
                          content[li])
       IN /\ current_feature' = st.current_feature
          /\ brace_count' = st.brace_count
          /\ features' = st.features
          /\ last' = st.last
    /\ li' = li + 1
    /\ engaged' = IF li = 1 THEN Append(engaged, "B") ELSE engaged
    /\ pc' = IF li = Len(content) THEN "C" ELSE "B"
    /\ UNCHANGED <<content, fi, out_features, written>>

\* fault variant: the pattern scan runs without the test "if not features"
StrategyCAlways ==
    /\ pc = "C"
    /\ features' = PatternScan(content)
    /\ engaged' = Append(engaged, "C")
    /\ pc' = "D"
    /\ UNCHANGED <<content, li, current_feature, brace_count, last, fi,
                   out_features, written>>

StrategyC ==
    /\ pc = "C"
    /\ IF features = <<>>
       THEN /\ features' = PatternScan(content)
            /\ engaged' = Append(engaged, "C")
       ELSE UNCHANGED <<features, engaged>>
    /\ pc' = "D"
    /\ UNCHANGED <<content, li, current_feature, brace_count, last, fi,
                   out_features, written>>

StrategyD ==
    /\ pc = "D"
    /\ IF features = <<>>
       THEN /\ features' = ExtractWithRegex(content)
            /\ engaged' = Append(engaged, "D")
       ELSE UNCHANGED <<features, engaged>>
    /\ pc' = "validate"
    /\ UNCHANGED <<content, li, current_feature, brace_count, last, fi,
                   out_features, written>>

(***************************************************************************)
(* parse_txt_to_geojson as one function, and the file it writes            *)
(***************************************************************************)
\* the validation loop from candidate i on; aborted = TRUE when an exception
\* reached "except Exception" (nothing is written then)
RECURSIVE ValidateFrom(_, _, _)
Continue(validated_feature, candidates, i, out) ==
    IF validated_feature.r = "raise" THEN [aborted |-> TRUE, features |-> out]
    ELSE ValidateFrom(candidates, i + 1,
                      IF validated_feature.r = "ok" THEN Append(out, validated_feature)
                      ELSE out)
ValidateFrom(candidates, i, out) ==
    IF i > Len(candidates) THEN [aborted |-> FALSE, features |-> out]
    ELSE Continue(ValidateAndFixFeature(candidates[i]), candidates, i, out)

Finish(run) == [written |-> ~run.aborted, features |-> run.features]

\* parse_txt_to_geojson on the text: whether the output file is written, and
\* the features of the collection built
RunPipeline(lines) == Finish(ValidateFrom(ExtractFeaturesFromContent(lines), 1, <<>>))

\* a Feature of the output as json.loads reads it back
AsCandidate(f) ==
    FeatureCand(PointGeom(f.coords[1], f.coords[2]), DictProps(f.props))

\* json.dump of the collection: the text, read as lines, is the opening of the
\* collection, its features separated by commas, and its closing
RECURSIVE DumpFeatures(_)
DumpFeatures(fs) ==
    IF fs = <<>> THEN <<>>
    ELSE IF Len(fs) = 1 THEN <<FeatureLine(AsCandidate(fs[1]))>>
    ELSE <<FeatureCommaLine(AsCandidate(fs[1]))>> \o DumpFeatures(Tail(fs))

JsonDump(fs) == <<Line("coll_open")>> \o DumpFeatures(fs) \o <<Line("coll_close")>>

(***************************************************************************)
(* Inputs of the pipeline                                                  *)
(***************************************************************************)
MaxLines == 3

cOk ==
    FeatureCand(PointGeom(Num(-7067), Num(-3345)),
                DictProps([name |-> sName, note |-> sEmpty]))
cSwapped == FeatureCand(PointGeom(Num(-3345), Num(-10945)), DictProps(EmptyMap))
cOverride ==
    FeatureCand(PointGeom(Num(-7067), Num(-3345)),
                DictProps([latitude |-> Num(1000), longitude |-> Num(2000),
                           coordinates |-> Lst]))
cNoCoords == FeatureCand(Geom("null", "absent", <<>>), DictProps([name |-> NameDC1]))
cNullProps == FeatureCand(PointGeom(Num(-7067), Num(-3345)), Props("null", EmptyMap))
cOther ==
    Cand("dict", "Other", PointGeom(Num(-7067), Num(-3345)),
         DictProps([name |-> Str(<<"D", "C", "2">>)]), <<>>, 3)

PipelineCandidates == {cOk, cSwapped, cOverride, cNoCoords, cNullProps, cOther}

InputLines ==
    {Line("blank"), Line("lbrace"), Line("rbrace"), Line("empty_list"),
     Line("coll_open"), Line("coll_close"), Line("fields"), Line("unquoted")}
    \cup {FeatureLine(c) : c \in PipelineCandidates}
    \cup {FeatureCommaLine(c) : c \in PipelineCandidates}

Contents == UNION {[1..n -> InputLines] : n \in 1..MaxLines}

(***************************************************************************)
(* Specifications                                                          *)
(***************************************************************************)
Init ==
    /\ content \in Contents
    /\ pc = "A"
    /\ li = 1
    /\ current_feature = <<>>
    /\ brace_count = 0
    /\ features = <<>>
    /\ engaged = <<>>
    /\ last = "none"
    /\ fi = 1
    /\ out_features = <<>>
    /\ written = FALSE

Next ==
    \/ StrategyA
    \/ ScanLine
    \/ StrategyC
    \/ StrategyD
    \/ ValidateStep
    \/ WriteOutput

Spec == Init /\ [][Next]_vars

\* the validator on one candidate: the state after the extractor returned it
CandidateDocument(c) == <<Line("coll_open"), FeatureLine(c), Line("coll_close")>>

ValidatorInit ==
    /\ \/ \E g \in Geometries, p \in CoordProperties :
             content = CandidateDocument(FeatureCand(g, p))
       \/ \E g \in FewGeometries, p \in DescProperties \cup OtherProperties :
             content = CandidateDocument(FeatureCand(g, p))
       \/ \E c \in NonFeatures : content = CandidateDocument(c)
    /\ features = FullParse(content).features
    /\ engaged = <<"A">>
    /\ pc = "validate"
    /\ li = 1
    /\ current_feature = <<>>
    /\ brace_count = 0
    /\ last = "none"
    /\ fi = 1
    /\ out_features = <<>>
    /\ written = FALSE

ValidatorNext == ValidateStep \/ WriteOutput

ValidatorSpec == ValidatorInit /\ [][ValidatorNext]_vars

\* a well-formed document: a FeatureCollection of the candidates, one per line
MaxFeatures == 2

DocumentOf(cands) ==
    <<Line("coll_open")>>
    \o [i \in 1..Len(cands) |->
          IF i < Len(cands) THEN FeatureCommaLine(cands[i]) ELSE FeatureLine(cands[i])]
    \o <<Line("coll_close")>>

\* latitude/longitude pairs a feature's properties may carry
ExplicitValues ==
    {<<Absent, Absent>>, <<Num(1000), Num(2000)>>, <<Num(12000), Num(2000)>>,
     <<sJunk, Num(2000)>>, <<Num(1000), Absent>>}

CollectionCandidates ==
    {FeatureCand(PointGeom(a, Num(-3345)), DictProps(Restrict(
        [name |-> n, latitude |-> e[1], longitude |-> e[2]]))) :
        a \in {Num(-7067), Num(12000)}, n \in {Absent, sName}, e \in ExplicitValues}
    \cup {FeatureCand(PointGeom(Num(-7067), Num(-3345)),
                      DictProps([lat |-> Num(-5000), lon |-> Num(-6000)])),
          cSwapped, cNoCoords, cNullProps, cOther}

CollectionInit ==
    /\ \E n \in 0..MaxFeatures : \E cands \in [1..n -> CollectionCandidates] :
          content = DocumentOf(cands)
    /\ pc = "A"
    /\ li = 1
    /\ current_feature = <<>>
    /\ brace_count = 0
    /\ features = <<>>
    /\ engaged = <<>>
    /\ last = "none"
    /\ fi = 1
    /\ out_features = <<>>
    /\ written = FALSE

CollectionNext == StrategyA \/ ValidateStep \/ WriteOutput

CollectionSpec == CollectionInit /\ [][CollectionNext]_vars

\* a text only the field scatter recovers: an unclosed "{" and, on the next
\* line, an object that is no Feature but shows a name and a coordinates pair
BuilderValues == {Num(-10945), Num(-7067), Num(-3345), Num(1000), Num(12000), Num(20000)}

ScatterCandidate(a, b, e) ==
    Cand("dict", "Other", PointGeom(a, b),
         DictProps(Restrict([name |-> NameDC1, latitude |-> e[1], longitude |-> e[2]])),
         <<>>, 3)

ScatterDocument(c) == <<Line("lbrace"), FeatureLine(c)>>

BuilderInit ==
    /\ \E a \in BuilderValues, b \in BuilderValues,
          e \in {<<Absent, Absent>>, <<Num(1000), Num(2000)>>, <<Num(12000), Num(2000)>>} :
          content = ScatterDocument(ScatterCandidate(a, b, e))
    /\ pc = "A"
    /\ li = 1
    /\ current_feature = <<>>
    /\ brace_count = 0
    /\ features = <<>>
    /\ engaged = <<>>
    /\ last = "none"
    /\ fi = 1
    /\ out_features = <<>>
    /\ written = FALSE

BuilderSpec == BuilderInit /\ [][Next]_vars

(***************************************************************************)
(* Claims on the validator (checked under ValidatorSpec)                   *)
(***************************************************************************)
\* the candidate handed to validate_and_fix_feature and what came of it
TheCandidate == features[1]
Validated == pc = "done" /\ Len(features) = 1
Accepted == Validated /\ Len(out_features) = 1

\* C1: every Feature the validator returns has coordinates [lon, lat] whose
\* numeric values are in range: lat in [-90, 90] and lon in [-180, 180]
C1_CoordinatesInRange ==
    \A i \in 1..Len(out_features) :
        /\ Len(out_features[i].coords) = 2
        /\ ToFloat(out_features[i].coords[1]).ok
        /\ ToFloat(out_features[i].coords[2]).ok
        /\ ToFloat(out_features[i].coords[1]).n >= -18000
        /\ ToFloat(out_features[i].coords[1]).n <= 18000
        /\ ToFloat(out_features[i].coords[2]).n >= -9000
        /\ ToFloat(out_features[i].coords[2]).n <= 9000

\* a Feature came out of a geometry given as [lat, lon], at the edge of the range
C1_Witness ==
    /\ Accepted
    /\ TheCandidate.g = PointGeom(Num(-9000), Num(-18000))
    /\ out_features[1].coords = <<Num(-18000), Num(-9000)>>

\* C4 (as claimed): geometry.coordinates [-33.45, -70.67] with no explicit
\* latitude/longitude resolves to (lon, lat) = (-70.67, -33.45)
C4_SwapCorrected ==
    (/\ Validated
     /\ TheCandidate.t = "dict" /\ TheCandidate.type = "Feature"
     /\ TheCandidate.g = PointGeom(Num(-3345), Num(-7067))
     /\ TheCandidate.p.t = "dict"
     /\ ~HasKey(TheCandidate.p.m, "latitude")
     /\ ~HasKey(TheCandidate.p.m, "longitude"))
    => /\ Len(out_features) = 1
       /\ out_features[1].coords = <<Num(-7067), Num(-3345)>>

\* a string without leading or trailing whitespace
Trimmed(s) == s = <<>> \/ (~IsSpace(s[1]) /\ ~IsSpace(s[Len(s)]))
AllSpace(s) == \A i \in 1..Len(s) : IsSpace(s[i])
\* t is s without a whitespace prefix and a whitespace suffix
IsTrimOf(t, s) ==
    /\ Trimmed(t)
    /\ \E a \in 0..Len(s) :
          /\ a + Len(t) <= Len(s)
          /\ SubSeq(s, a + 1, a + Len(t)) = t
          /\ AllSpace(SubSeq(s, 1, a))
          /\ AllSpace(SubSeq(s, a + Len(t) + 1, Len(s)))

\* C7: the output properties hold exactly the keys other than latitude and
\* longitude whose value is neither None, nor "", nor a string empty after
\* trimming; strings come out trimmed, other values unchanged
C7_PropertiesNormalized ==
    (Accepted /\ TheCandidate.p.t = "dict") =>
        LET m == TheCandidate.p.m
            o == out_features[1].props
        IN /\ DOMAIN o =
                {k \in DOMAIN m :
                    /\ k \notin {"latitude", "longitude"}
                    /\ m[k].t # "null"
                    /\ ~(m[k].t = "str" /\ AllSpace(m[k].s))}
           /\ \A k \in DOMAIN o :
                IF m[k].t = "str"
                THEN o[k].t = "str" /\ IsTrimOf(o[k].s, m[k].s)
                ELSE o[k] = m[k]

\* the example of the specification: {name: " DC1 ", note: "", extra: 5}
C7_Witness ==
    /\ Accepted
    /\ TheCandidate.p = DictProps([name |-> sName, note |-> sEmpty, extra |-> Num(5)])
    /\ out_features[1].props = [name |-> NameDC1, extra |-> Num(5)]

\* the global ranges, in hundredths of a degree
InRange(lat, lon) == lat >= -9000 /\ lat <= 9000 /\ lon >= -18000 /\ lon <= 18000
Converts(m, k) == k \in DOMAIN m /\ ToFloat(m[k]).ok
NumberAt(m, k) == Num(ToFloat(m[k]).n)
PropertiesMap(c) == IF c.p.t = "dict" THEN c.p.m ELSE EmptyMap

\* (1) latitude and longitude of properties
ExplicitPair(m) ==
    IF /\ Converts(m, "latitude") /\ Converts(m, "longitude")
       /\ InRange(ToFloat(m["latitude"]).n, ToFloat(m["longitude"]).n)
    THEN <<NumberAt(m, "longitude"), NumberAt(m, "latitude")>>
    ELSE <<>>

\* (2) a two-element geometry.coordinates [a, b]
PairOf(a, b) ==
    IF ~(ToFloat(a).ok /\ ToFloat(b).ok) THEN <<>>
    ELSE IF InRange(ToFloat(b).n, ToFloat(a).n) THEN <<a, b>>
    ELSE IF InRange(ToFloat(a).n, ToFloat(b).n) THEN <<b, a>>
    ELSE <<>>
GeometryPair(g) ==
    IF g.t = "dict" /\ g.c = "list" /\ Len(g.items) = 2
    THEN PairOf(g.items[1], g.items[2]) ELSE <<>>

\* (3) the first key of each list that is among the eligible keys
FirstAmong(fields, eligible) ==
    IF \E i \in 1..Len(fields) : fields[i] \in eligible
    THEN fields[CHOOSE i \in 1..Len(fields) :
                   /\ fields[i] \in eligible
                   /\ \A j \in 1..(i - 1) : fields[j] \notin eligible]
    ELSE ""
AlternatePairOf(m, latKey, lonKey) ==
    IF /\ Converts(m, latKey) /\ Converts(m, lonKey)
       /\ InRange(ToFloat(m[latKey]).n, ToFloat(m[lonKey]).n)
    THEN <<NumberAt(m, lonKey), NumberAt(m, latKey)>>
    ELSE <<>>
AlternatePair(m, eligible) ==
    AlternatePairOf(m, FirstAmong(lat_fields, eligible), FirstAmong(lon_fields, eligible))

FirstOf(p1, p2, p3) == IF p1 # <<>> THEN p1 ELSE IF p2 # <<>> THEN p2 ELSE p3
Resolved(g, m, eligible) ==
    FirstOf(ExplicitPair(m), GeometryPair(g), AlternatePair(m, eligible))

\* the candidate came out with these coordinates, or was rejected if there are none
Outcome(pair) ==
    IF pair = <<>> THEN out_features = <<>>
    ELSE Len(out_features) = 1 /\ out_features[1].coords = pair

\* a Feature-typed mapping whose properties are a mapping (or absent, or a list)
ResolverRan ==
    /\ Validated
    /\ TheCandidate.t = "dict" /\ TheCandidate.type = "Feature"
    /\ TheCandidate.p.t \in {"dict", "absent", "list"}

ConvertibleKeys(m) == {k \in DOMAIN m : ToFloat(m[k]).ok}

\* C10 (as claimed): resolution is (1) properties latitude/longitude, else
\* (2) geometry.coordinates in either orientation, else (3) the first present
\* latitude-like and longitude-like alternate keys, else rejection
C10_FirstPresentKeys ==
    ResolverRan =>
        Outcome(Resolved(TheCandidate.g, PropertiesMap(TheCandidate),
                         DOMAIN PropertiesMap(TheCandidate)))

\* C10 (amended): as above, but in (3) a present alternate key whose value does
\* not convert to a number is skipped: the pair is made of the first
\* latitude-like key and the first longitude-like key whose values convert
C10_FirstConvertibleKeys ==
    ResolverRan =>
        Outcome(Resolved(TheCandidate.g, PropertiesMap(TheCandidate),
                         ConvertibleKeys(PropertiesMap(TheCandidate))))

\* "lat" is present but is no number, and the latitude was taken from "y"
C10_Witness ==
    /\ Accepted
    /\ TheCandidate.p.t = "dict"
    /\ HasKey(TheCandidate.p.m, "lat") /\ TheCandidate.p.m["lat"] = sJunk
    /\ HasKey(TheCandidate.p.m, "y")
    /\ ExplicitPair(TheCandidate.p.m) = <<>>
    /\ GeometryPair(TheCandidate.g) = <<>>
    /\ out_features[1].coords = <<Num(-7067), Num(-5000)>>

(***************************************************************************)
(* Claims on the pipeline (checked under Spec and CollectionSpec)          *)
(***************************************************************************)
\* C2 (as claimed): no Feature of the output has a property named latitude,
\* longitude or coordinates
C2_NoCoordinateKeys ==
    \A i \in 1..Len(out_features) :
        DOMAIN out_features[i].props \cap {"latitude", "longitude", "coordinates"} = {}

\* the features of a collection document, as written in it
DocFeatures(lines) == [i \in 1..(Len(lines) - 2) |-> lines[i + 1].c]

\* a Feature with a Point geometry [lon, lat] of in-range numbers and a
\* properties mapping
WellFormedFeature(c) ==
    /\ c.t = "dict" /\ c.type = "Feature"
    /\ c.g.t = "dict" /\ c.g.c = "list" /\ Len(c.g.items) = 2
    /\ c.g.items[1].t = "num" /\ c.g.items[2].t = "num"
    /\ InRange(c.g.items[2].n, c.g.items[1].n)
    /\ c.p.t = "dict"
WellFormedCollection ==
    /\ pc = "done"
    /\ \A i \in 1..Len(DocFeatures(content)) : WellFormedFeature(DocFeatures(content)[i])

\* C3 (as claimed): on a well-formed FeatureCollection the output has as many
\* features as the input, each with the input's geometry.coordinates unchanged
C3_CoordinatesUnchanged ==
    WellFormedCollection =>
        /\ Len(out_features) = Len(DocFeatures(content))
        /\ \A i \in 1..Len(out_features) :
              out_features[i].coords = DocFeatures(content)[i].g.items

\* the coordinates the amended claim expects for a well-formed feature
ExpectedCoordinates(c) ==
    IF ExplicitPair(c.p.m) # <<>> THEN ExplicitPair(c.p.m) ELSE c.g.items

\* C3 (amended): on a well-formed FeatureCollection the output has as many
\* features as the input, in the same order; a feature whose properties hold
\* a latitude and a longitude that convert to in-range numbers comes out with
\* [longitude, latitude] of the properties, every other feature with its
\* geometry.coordinates unchanged
C3_CoordinatesUnlessExplicit ==
    WellFormedCollection =>
        /\ Len(out_features) = Len(DocFeatures(content))
        /\ \A i \in 1..Len(out_features) :
              out_features[i].coords = ExpectedCoordinates(DocFeatures(content)[i])

\* two well-formed features: the first takes its coordinates from its
\* properties, the second keeps those of its geometry
C3_Witness ==
    /\ WellFormedCollection
    /\ Len(out_features) = 2
    /\ out_features[1].coords = <<Num(2000), Num(1000)>>
    /\ DocFeatures(content)[1].g.items = <<Num(-7067), Num(-3345)>>
    /\ out_features[2].coords = <<Num(12000), Num(-3345)>>
    /\ DocFeatures(content)[2].g.items = <<Num(12000), Num(-3345)>>

\* C5: the pipeline run on the collection it wrote writes the same collection:
\* same features in the same order, same coordinates, same properties
C5_Idempotent ==
    pc = "done" =>
        RunPipeline(JsonDump(out_features)) = [written |-> TRUE, features |-> out_features]

\* a collection of two features was written, one of them with coordinates
\* exchanged from [lat, lon] and one with trimmed properties
C5_Witness ==
    /\ pc = "done" /\ written
    /\ Len(out_features) = 2
    /\ \E i \in 1..2 : out_features[i].coords = <<Num(-10945), Num(-3345)>>
    /\ \E i \in 1..2 : out_features[i].props = [name |-> NameDC1]

\* the candidates that validate, in order, as validated
RECURSIVE Survivors(_)
Keep(validated_feature) ==
    IF validated_feature.r = "ok" THEN <<validated_feature>> ELSE <<>>
Survivors(candidates) ==
    IF candidates = <<>> THEN <<>>
    ELSE Keep(ValidateAndFixFeature(Head(candidates))) \o Survivors(Tail(candidates))

\* C6 (as claimed): a candidate that fails is only dropped: the run is never
\* aborted, and the file written holds exactly the candidates that validate
C6_FailureOnlyDrops ==
    /\ pc # "aborted"
    /\ pc = "done" => (written /\ out_features = Survivors(features))

\* what each strategy yields on the content
YieldB == BalancedAccumulation(content)
YieldC == PatternScan(content)
YieldD == ExtractWithRegex(content)
FirstYield(a, b, c, d) ==
    IF a # <<>> THEN a ELSE IF b # <<>> THEN b ELSE IF c # <<>> THEN c ELSE d
Returned == pc \in {"validate", "done", "aborted"}
InOrder(e) == \E n \in 1..4 : e = SubSeq(<<"A", "B", "C", "D">>, 1, n)
Engaged(x) == \E i \in 1..Len(engaged) : engaged[i] = x

\* C8 (as claimed): the result is the output of the first of A, B, C, D that
\* yields at least one candidate
C8_FirstYielding ==
    Returned =>
        features = FirstYield(FullParse(content).features, YieldB, YieldC, YieldD)

\* C8 (amended): the strategies are engaged in the order A, B, C, D; B only
\* if the full parse did not return, C only if moreover B yielded nothing, D
\* only if moreover C yielded nothing. When the full parse returns, its result
\* is final even if it is empty; otherwise the result is the output of the
\* first of B, C, D that yields at least one candidate
C8_StrategyOrder ==
    Returned =>
        /\ InOrder(engaged)
        /\ Engaged("B") <=> ~FullParse(content).returned
        /\ Engaged("C") <=> (Engaged("B") /\ YieldB = <<>>)
        /\ Engaged("D") <=> (Engaged("C") /\ YieldC = <<>>)
        /\ features = IF FullParse(content).returned THEN FullParse(content).features
                      ELSE FirstYield(YieldB, YieldC, YieldD, <<>>)

\* the full parse returned no candidate, the line scan would have yielded one,
\* and the result is empty
C8_Witness ==
    /\ Returned
    /\ engaged = <<"A">>
    /\ features = <<>>
    /\ YieldB # <<>>

\* the effect of one line of the scan on counter, buffer and candidates
Extends(longer, shorter) ==
    /\ Len(longer) \in {Len(shorter), Len(shorter) + 1}
    /\ SubSeq(longer, 1, Len(shorter)) = shorter
LineEffect(line) ==
    IF line.k = "blank"
    THEN UNCHANGED <<current_feature, brace_count, features>>
    ELSE /\ brace_count' = brace_count + Opens(line) - Closes(line)
         /\ IF brace_count' = 0
            THEN /\ last' \in {"parsed", "repaired", "failed"}
                 /\ current_feature' = <<>>
                 /\ Extends(features', features)
                 /\ (last' = "failed") <=> (features' = features)
            ELSE /\ last' = "accumulate"
                 /\ current_feature' = Append(current_feature, line)
                 /\ features' = features

\* C9: in the line scan a blank line changes nothing; any other line adds its
\* count of "{" minus its count of "}" to the counter; if the counter is then
\* zero a parse is attempted, the buffer is emptied whatever the outcome and
\* at most one candidate is appended; if the counter is not zero (negative
\* included) nothing is parsed and the line is appended to the buffer
C9_LineScan == [][pc = "B" => LineEffect(content[li])]_vars

\* a buffer of three lines was repaired into one candidate and emptied
C9_Witness ==
    /\ last = "repaired"
    /\ current_feature = <<>>
    /\ Len(features) = 1
    /\ li = 4

(***************************************************************************)
(* Claims on the synthetic-feature builder (checked under BuilderSpec)     *)
(***************************************************************************)
\* the regional box, in hundredths of a degree
InBox(lat, lon) == lat >= -5600 /\ lat <= -1700 /\ lon >= -10900 /\ lon <= -6600

\* the orientation of the pair [a, b] the claim expects: the one in the box if
\* there is one, else the first globally valid one, [lon, lat] tried first
PreferredOrientation(a, b) ==
    IF InBox(b.n, a.n) THEN <<a, b>>
    ELSE IF InBox(a.n, b.n) THEN <<b, a>>
    ELSE IF InRange(b.n, a.n) THEN <<a, b>>
    ELSE IF InRange(a.n, b.n) THEN <<b, a>>
    ELSE <<>>

\* the field scatter has just run on a text of the shape above
BuilderRan ==
    /\ pc = "validate" /\ fi = 1 /\ Engaged("D")
    /\ Len(content) = 2 /\ content[2].k = "feature"
    /\ content[2].c.g.c = "list" /\ Len(content[2].c.g.items) = 2
    /\ content[2].c.p.t = "dict"

\* the builder made a Feature with these coordinates, or none if there are none
BuiltWith(pair) ==
    IF pair = <<>> THEN features = <<>>
    ELSE Len(features) = 1 /\ features[1].g.items = pair

\* C11 (as claimed): for a coordinates pair with no valid explicit
\* latitude/longitude, create_feature_from_data outputs the orientation that
\* lies in the regional box (lat in [-56, -17], lon in [-109, -66]) and falls
\* back to global validity, [lon, lat] first, only when neither orientation
\* lies in the box
C11_RegionalPreferred ==
    (BuilderRan /\ ExplicitPair(content[2].c.p.m) = <<>>) =>
        BuiltWith(PreferredOrientation(content[2].c.g.items[1], content[2].c.g.items[2]))

====
